---- MODULE Spec2Model ----
(***************************************************************************)
(* CovidChart (chartlib/covid_chart.py): the constructor's column checks   *)
(* and the stages of _preprocess_df, which turn the raw table into the     *)
(* table handed to the chart layer: cumulative y, top-k groups, start      *)
(* alignment, the lockdown (quarantine) join with its extrapolation        *)
(* parameters and marker rows, and the x/y domain filter.                  *)
(*                                                                         *)
(* A table is a sequence of rows (records) in the dataframe's row order.   *)
(* A cell that pandas holds as NaN/None is the empty tuple, a present      *)
(* value v is the one-element tuple <<v>>.                                 *)
(***************************************************************************)
EXTENDS Integers, Sequences, FiniteSets, TLC

VARIABLES df, quarantine_df, groupcol, ycol, ycol_is_cumulative, top_k_groups,
          start_criterion, spec, pc, ydf, topdf, aligned, merged, joined, chart_df

vars == <<df, quarantine_df, groupcol, ycol, ycol_is_cumulative, top_k_groups,
          start_criterion, spec, pc, ydf, topdf, aligned, merged, joined, chart_df>>

(* ------------------------------ bounds -------------------------------- *)
\* longest raw table enumerated
MaxRows == 2
\* longest lockdown table enumerated
MaxEvents == 2

(* --------------------------- nullable cells --------------------------- *)
None == <<>>
Some(v) == <<v>>
IsNull(c) == c = <<>>
NotNull(c) == c /= <<>>
Val(c) == c[1]

(* ------------------------------ inputs -------------------------------- *)
\* group keys in the order pandas' groupby sorts them
GroupKeys == <<"A", "B">>
Groups == {GroupKeys[i] : i \in DOMAIN GroupKeys}
KeyPos(g) == CHOOSE i \in DOMAIN GroupKeys : GroupKeys[i] = g
\* lockdown types in string order
TypeKeys == <<"full", "partial">>
TypePos(t) == CHOOSE i \in DOMAIN TypeKeys : TypeKeys[i] = t
RowDates == {1, 2}
RawValues == {0, 1}
\* the columns of the raw table
Columns == {"g", "date", "raw"}

RawRows == [g : Groups, date : RowDates, raw : RawValues]
\* complete lockdown rows (a "full" lockdown on the earlier date, a "partial"
\* one on the later date) and rows with a null cell
LockdownRows ==
    [g : Groups, lockdown_date : {Some(2)}, lockdown_type : {Some("full")}]
      \cup [g : Groups, lockdown_date : {Some(3)}, lockdown_type : {Some("partial")}]
      \cup {[g |-> "A", lockdown_date |-> Some(2), lockdown_type |-> None],
            [g |-> "B", lockdown_date |-> None, lockdown_type |-> Some("full")]}

SeqsUpTo(S, n) == UNION {[1..k -> S] : k \in 0..n}

(* ------------------------- sequence helpers --------------------------- *)
Range(s) == {s[i] : i \in DOMAIN s}

RECURSIVE Flatten(_)
Flatten(ss) == IF ss = <<>> THEN <<>> ELSE Head(ss) \o Flatten(Tail(ss))

SetMax(S) == CHOOSE m \in S : \A n \in S : n <= m
SetMin(S) == CHOOSE m \in S : \A n \in S : m <= n
Min2(a, b) == IF a <= b THEN a ELSE b

GroupsOf(t) == {t[i].g : i \in DOMAIN t}
RowsOf(t, g) == {i \in DOMAIN t : t[i].g = g}
\* the groups of a table in groupby's (sorted key) order
SortedGroups(t) == LET In(g) == g \in GroupsOf(t) IN SelectSeq(GroupKeys, In)

(* --------------------- stage 1: cumulative y -------------------------- *)
\* Series.cumsum over the rows of group g, in row order, up to row i
RECURSIVE CumSum(_, _, _)
CumSum(t, g, i) ==
    IF i = 0 THEN 0
    ELSE CumSum(t, g, i - 1) + (IF t[i].g = g THEN t[i].raw ELSE 0)

\* lines 68-74: df[Y] is the measure itself, or its per-group cumsum
AddY(t, cumulative) ==
    [i \in DOMAIN t |->
        [g |-> t[i].g, date |-> t[i].date, raw |-> t[i].raw,
         y |-> IF cumulative THEN t[i].raw ELSE CumSum(t, t[i].g, i)]]

(* --------------------- stage 2: top-k groups -------------------------- *)
\* groupby(groupcol)[Y].max()
Peak(t, g) == SetMax({t[i].y : i \in RowsOf(t, g)})

\* Series.nlargest(n), keep='first': the n largest peaks, the earlier key
\* of the groupby result first among equal peaks
RECURSIVE NLargest(_, _, _)
NLargest(t, cand, n) ==
    IF n <= 0 \/ cand = {} THEN {}
    ELSE LET best == CHOOSE g \in cand : \A h \in cand :
                        \/ Peak(t, h) < Peak(t, g)
                        \/ Peak(t, h) = Peak(t, g) /\ KeyPos(g) <= KeyPos(h)
         IN {best} \cup NLargest(t, cand \ {best}, n - 1)

\* the first k groups by key, whatever their peaks
TopKGroups_Unranked(t, k) ==
    {g \in GroupsOf(t) : Cardinality({h \in GroupsOf(t) : KeyPos(h) < KeyPos(g)}) < k}

\* lines 76-78
TopKGroups(t, k) == NLargest(t, GroupsOf(t), k)

KeepTopK(t, k) ==
    IF IsNull(k) THEN t
    ELSE LET keep == TopKGroups(t, Val(k))
             In(r) == r.g \in keep
         IN SelectSeq(t, In)

(* --------------------- stage 3: start alignment ----------------------- *)
\* utils.days_between(a, b): whole days from a to b
days_between(a, b) == b - a

\* the group's anchor date under the start criterion, None when it has none
DateOfN(t, g, crit) ==
    IF crit.kind = "DaysSinceNumReached"
    THEN LET reached == {t[i].date : i \in {j \in RowsOf(t, g) : t[j].y >= crit.N}}
         IN IF reached = {} THEN None ELSE Some(SetMin(reached))
    ELSE Some(crit.start)

\* start_criterion.transform: groups without an anchor are left out, every
\* other row gets date_of_N and x = date - date_of_N
Transform(t, crit) ==
    LET Has(r) == NotNull(DateOfN(t, r.g, crit))
        kept == SelectSeq(t, Has)
    IN [i \in DOMAIN kept |->
          LET r == kept[i]
              a == Val(DateOfN(t, r.g, crit))
          IN [g |-> r.g, date |-> r.date, raw |-> r.raw, y |-> r.y,
              date_of_N |-> a, x |-> days_between(a, r.date)]]

(* --------------------- stage 4: lockdown join ------------------------- *)
\* DataFrame.dropna: rows with a null cell are left out
DropNa(q) ==
    LET Full(r) == NotNull(r.lockdown_date) /\ NotNull(r.lockdown_type)
    IN SelectSeq(q, Full)

\* lines 84-87: inner merge of the lockdown rows with df[[groupcol, 'date_of_N']]
\* (one copy of a lockdown row per row of its group, left order kept), then
\* lockdown_x = days_between(date_of_N, lockdown_date)
MergeDateOfN(q, t) ==
    Flatten([k \in DOMAIN q |->
        LET Same(r) == r.g = q[k].g
            rs == SelectSeq(t, Same)
        IN [i \in DOMAIN rs |->
              [g |-> q[k].g, lockdown_date |-> Val(q[k].lockdown_date),
               lockdown_type |-> Val(q[k].lockdown_type),
               lockdown_x |-> days_between(rs[i].date_of_N, Val(q[k].lockdown_date))]]])

\* a lockdown on the anchor date is kept
PositiveLockdowns_NonNegative(m) == LET Pos(r) == r.lockdown_x >= 0 IN SelectSeq(m, Pos)

\* line 90
PositiveLockdowns(m) == LET Pos(r) == r.lockdown_x > 0 IN SelectSeq(m, Pos)

\* idxmax in place of idxmin: the latest lockdown of the group
IdxMin_Latest(m, g) ==
    LET most == SetMax({m[i].lockdown_x : i \in RowsOf(m, g)})
    IN SetMin({i \in RowsOf(m, g) : m[i].lockdown_x = most})

\* line 91: groupby(groupcol).lockdown_x.idxmin(), the first row of the
\* group holding its least lockdown_x
IdxMin(m, g) ==
    LET least == SetMin({m[i].lockdown_x : i \in RowsOf(m, g)})
    IN SetMin({i \in RowsOf(m, g) : m[i].lockdown_x = least})

\* lines 82-92: the lockdown rows kept, one per group, in group-key order
RetainedLockdowns(q, t) ==
    LET m == PositiveLockdowns(MergeDateOfN(DropNa(q), t))
        gs == SortedGroups(m)
    IN [k \in DOMAIN gs |-> m[IdxMin(m, gs[k])]]

\* how='inner' in place of how='left': rows of groups without a lockdown go
MergeLockdown_Inner(t, kept) ==
    LET Hit(r) == \E k \in DOMAIN kept : kept[k].g = r.g
        rs == SelectSeq(t, Hit)
    IN [i \in DOMAIN rs |->
          LET e == kept[SetMin({k \in DOMAIN kept : kept[k].g = rs[i].g})]
          IN [g |-> rs[i].g, date |-> Some(rs[i].date), raw |-> Some(rs[i].raw),
              y |-> Some(rs[i].y), date_of_N |-> Some(rs[i].date_of_N), x |-> Some(rs[i].x),
              lockdown_date |-> Some(e.lockdown_date),
              lockdown_type |-> Some(e.lockdown_type),
              lockdown_x |-> Some(e.lockdown_x)]]

\* line 93: left merge on groupcol
MergeLockdown(t, kept) ==
    [i \in DOMAIN t |->
        LET hit == {k \in DOMAIN kept : kept[k].g = t[i].g}
            e == kept[SetMin(hit)]
        IN [g |-> t[i].g, date |-> Some(t[i].date), raw |-> Some(t[i].raw),
            y |-> Some(t[i].y), date_of_N |-> Some(t[i].date_of_N), x |-> Some(t[i].x),
            lockdown_date |-> IF hit = {} THEN None ELSE Some(e.lockdown_date),
            lockdown_type |-> IF hit = {} THEN None ELSE Some(e.lockdown_type),
            lockdown_x |-> IF hit = {} THEN None ELSE Some(e.lockdown_x)]]

\* x < lockdown_x in place of x <= lockdown_x
LockdownY_Strict(t, g) ==
    LET cand == {i \in RowsOf(t, g) :
                    NotNull(t[i].lockdown_x) /\ Val(t[i].x) < Val(t[i].lockdown_x)}
        top == SetMax({Val(t[i].x) : i \in cand})
    IN IF cand = {} THEN None
       ELSE t[SetMin({i \in cand : Val(t[i].x) = top})].y

\* lines 95-96: per group, the first row of largest x among those with
\* x <= lockdown_x; its y
LockdownY(t, g) ==
    LET cand == {i \in RowsOf(t, g) :
                    NotNull(t[i].lockdown_x) /\ Val(t[i].x) <= Val(t[i].lockdown_x)}
        top == SetMax({Val(t[i].x) : i \in cand})
    IN IF cand = {} THEN None
       ELSE t[SetMin({i \in cand : Val(t[i].x) = top})].y

\* line 97: the first row of the group with x == 0; its y
Intercept(t, g) ==
    LET zero == {i \in RowsOf(t, g) : Val(t[i].x) = 0}
    IN IF zero = {} THEN None ELSE t[SetMin(zero)].y

(* IEEE arithmetic of line 108 on the value classes
   "nan", "-inf", "neg", "zero", "pos", "+inf" *)
\* lockdown_y / intercept
Quotient(ly, ic) ==
    IF ic = 0 THEN (IF ly = 0 THEN "nan" ELSE IF ly > 0 THEN "+inf" ELSE "-inf")
    ELSE IF ly = 0 THEN "zero"
    ELSE IF (ly > 0) = (ic > 0) THEN "pos" ELSE "neg"

\* np.log of the quotient
LogQuotient(ly, ic) ==
    LET q == Quotient(ly, ic)
    IN IF q \in {"nan", "neg", "-inf"} THEN "nan"
       ELSE IF q = "zero" THEN "-inf"
       ELSE IF q = "+inf" THEN "+inf"
       ELSE IF ly = ic THEN "zero"
       ELSE IF (ly > ic) = (ic > 0) THEN "pos" ELSE "neg"

\* the log divided by lockdown_x
Exponent(ly, ic, lx) ==
    LET l == LogQuotient(ly, ic)
        Flip(c) == IF c = "pos" THEN "neg" ELSE IF c = "neg" THEN "pos"
                   ELSE IF c = "+inf" THEN "-inf" ELSE IF c = "-inf" THEN "+inf" ELSE c
    IN IF lx > 0 THEN l
       ELSE IF lx < 0 THEN Flip(l)
       ELSE IF l = "pos" THEN "+inf" ELSE IF l = "neg" THEN "-inf"
       ELSE IF l = "zero" THEN "nan" ELSE l

\* line 108: np.exp(np.log(lockdown_y / intercept) / lockdown_x); None is NaN,
\* <<"zero">> is 0.0, <<"inf">> is inf, <<"fin", ly, ic, lx>> is the finite
\* positive number (ly/ic)^(1/lx)
Slope(ly, ic, lx) ==
    IF IsNull(ly) \/ IsNull(ic) \/ IsNull(lx) THEN None
    ELSE LET e == Exponent(Val(ly), Val(ic), Val(lx))
         IN IF e = "nan" THEN None
            ELSE IF e = "-inf" THEN <<"zero">>
            ELSE IF e = "+inf" THEN <<"inf">>
            ELSE <<"fin", Val(ly), Val(ic), Val(lx)>>

\* lines 95-108: intercept, lockdown_y and lockdown_slope on every row
AddExtrapolation(t) ==
    [i \in DOMAIN t |->
        LET r == t[i]
            ic == Intercept(t, r.g)
            ly == LockdownY(t, r.g)
        IN [g |-> r.g, date |-> r.date, raw |-> r.raw, y |-> r.y,
            date_of_N |-> r.date_of_N, x |-> r.x,
            lockdown_date |-> r.lockdown_date, lockdown_type |-> r.lockdown_type,
            lockdown_x |-> r.lockdown_x, intercept |-> ic, lockdown_y |-> ly,
            lockdown_slope |-> Slope(ly, ic, r.lockdown_x)]]

\* lines 82-108
JoinLockdown(t, q) == AddExtrapolation(MergeLockdown(t, RetainedLockdowns(q, t)))

\* the table as it is when no lockdown table was given
WithoutLockdown(t) ==
    [i \in DOMAIN t |->
        [g |-> t[i].g, date |-> Some(t[i].date), raw |-> Some(t[i].raw),
         y |-> Some(t[i].y), date_of_N |-> Some(t[i].date_of_N), x |-> Some(t[i].x),
         lockdown_date |-> None, lockdown_type |-> None, lockdown_x |-> None,
         intercept |-> None, lockdown_y |-> None, lockdown_slope |-> None]]

\* groupby.max() of a numeric column: the largest non-null cell, else NaN
MaxCell(cells) ==
    LET vs == {Val(c) : c \in {d \in cells : NotNull(d)}}
    IN IF vs = {} THEN None ELSE Some(SetMax(vs))

\* groupby.max() of the lockdown_type column
MaxType(cells) ==
    LET vs == {Val(c) : c \in {d \in cells : NotNull(d)}}
    IN IF vs = {} THEN None
       ELSE Some(CHOOSE v \in vs : \A w \in vs : TypePos(w) <= TypePos(v))

\* line 117 left out: the new rows get no x
NewRows_NoX(t) ==
    LET gs == SortedGroups(t)
    IN [k \in DOMAIN gs |->
          [g |-> gs[k], date |-> None, raw |-> None, y |-> None,
           date_of_N |-> None, x |-> None,
           lockdown_date |-> None,
           lockdown_type |-> MaxType({t[i].lockdown_type : i \in RowsOf(t, gs[k])}),
           lockdown_x |-> MaxCell({t[i].lockdown_x : i \in RowsOf(t, gs[k])}),
           intercept |-> None, lockdown_y |-> None, lockdown_slope |-> None]]

\* lines 116-117: one row per group of the table, holding the group, its
\* lockdown_x and lockdown_type, and x = lockdown_x; no other column
NewRows(t) ==
    LET gs == SortedGroups(t)
    IN [k \in DOMAIN gs |->
          LET lx == MaxCell({t[i].lockdown_x : i \in RowsOf(t, gs[k])})
          IN [g |-> gs[k], date |-> None, raw |-> None, y |-> None,
              date_of_N |-> None, x |-> lx,
              lockdown_date |-> None,
              lockdown_type |-> MaxType({t[i].lockdown_type : i \in RowsOf(t, gs[k])}),
              lockdown_x |-> lx, intercept |-> None, lockdown_y |-> None,
              lockdown_slope |-> None]]

\* line 118: df.append(new_rows)
AppendNewRows(t) == t \o NewRows(t)

(* --------------------- stage 5: domain filter ------------------------- *)
\* the upper bound left out of the interval
InDomain_Open(c, dom) == NotNull(c) /\ Val(c) >= dom[1] /\ Val(c) < dom[2]

\* lines 122 and 125: lo <= cell <= hi; a comparison with NaN is false
InDomain(c, dom) == NotNull(c) /\ Val(c) >= dom[1] /\ Val(c) <= dom[2]

\* lines 120-125
ClipDomains(t, sp) ==
    LET InX(r) == InDomain(r.x, Val(sp.xdomain))
        InY(r) == InDomain(r.y, Val(sp.ydomain))
        tx == IF NotNull(sp.xdomain) THEN SelectSeq(t, InX) ELSE t
    IN IF NotNull(sp.ydomain) THEN SelectSeq(tx, InY) ELSE tx

(* ------------------------- the state machine -------------------------- *)
\* DaysSinceNumReached(N, col), the start criterion the charts are built with
DaysSinceNumReached == [kind |-> "DaysSinceNumReached", N |-> 1, start |-> 1]
\* another StartCriterion: every group is anchored at one fixed start date,
\* whether or not it has a row on that date
FixedStartDate == [kind |-> "FixedStartDate", N |-> 1, start |-> 1]

XDomains == {None, Some(<<0, 1>>)}
YDomains == {None, Some(<<1, 2>>)}
TopKs == {None, Some(1), Some(2)}

NoTables ==
    /\ ydf = <<>> /\ topdf = <<>> /\ aligned = <<>>
    /\ merged = <<>> /\ joined = <<>> /\ chart_df = <<>>

\* arguments that vary the series stages: any raw table, either measure
\* kind, any top-k, any domains; the lockdown table is absent or holds one
\* event
InitSeries ==
    /\ groupcol = "g" /\ ycol = "raw"
    /\ df \in SeqsUpTo(RawRows, MaxRows)
    /\ quarantine_df \in
         {None, Some(<<[g |-> "A", lockdown_date |-> Some(3), lockdown_type |-> Some("partial")]>>)}
    /\ ycol_is_cumulative \in BOOLEAN
    /\ top_k_groups \in TopKs
    /\ start_criterion = DaysSinceNumReached
    /\ spec \in [xdomain : XDomains, ydomain : YDomains]

\* arguments that vary the lockdown stages: any raw table of cumulative
\* measures, any lockdown table; no top-k, no domains
InitLockdowns ==
    /\ groupcol = "g" /\ ycol = "raw"
    /\ df \in SeqsUpTo(RawRows, MaxRows)
    /\ quarantine_df \in {Some(q) : q \in SeqsUpTo(LockdownRows, MaxEvents)}
    /\ ycol_is_cumulative = TRUE
    /\ top_k_groups = None
    /\ start_criterion = DaysSinceNumReached
    /\ spec = [xdomain |-> None, ydomain |-> None]

\* arguments naming a column the raw table does not have; the other
\* arguments are the constructor's defaults
InitBadColumns ==
    /\ \E names \in {<<"region", "raw">>, <<"g", "cases">>, <<"region", "cases">>} :
          groupcol = names[1] /\ ycol = names[2]
    /\ df \in SeqsUpTo(RawRows, MaxRows)
    /\ quarantine_df = None
    /\ ycol_is_cumulative = TRUE
    /\ top_k_groups = None
    /\ start_criterion = DaysSinceNumReached
    /\ spec = [xdomain |-> None, ydomain |-> None]

Init ==
    /\ pc = "new"
    /\ NoTables
    /\ (InitSeries \/ InitLockdowns \/ InitBadColumns)

\* the measure column is not looked for
ColumnsPresent_GroupOnly == groupcol \in Columns

\* lines 38-41: both configured columns must be columns of df
ColumnsPresent == groupcol \in Columns /\ ycol \in Columns

\* __init__, lines 36-64: df is given as a table (not a path), and the
\* lockdown tables enumerated have the three columns lines 43-49 ask for
Construct ==
    /\ pc = "new"
    /\ pc' = IF ColumnsPresent THEN "ready" ELSE "error"
    /\ UNCHANGED <<df, quarantine_df, groupcol, ycol, ycol_is_cumulative, top_k_groups,
                   start_criterion, spec, ydf, topdf, aligned, merged, joined, chart_df>>

\* _preprocess_df, lines 67-74
Cumulate ==
    /\ pc = "ready"
    /\ ydf' = AddY(df, ycol_is_cumulative)
    /\ pc' = "y"
    /\ UNCHANGED <<df, quarantine_df, groupcol, ycol, ycol_is_cumulative, top_k_groups,
                   start_criterion, spec, topdf, aligned, merged, joined, chart_df>>

\* _preprocess_df, lines 76-78
SelectTopK ==
    /\ pc = "y"
    /\ topdf' = KeepTopK(ydf, top_k_groups)
    /\ pc' = "topk"
    /\ UNCHANGED <<df, quarantine_df, groupcol, ycol, ycol_is_cumulative, top_k_groups,
                   start_criterion, spec, ydf, aligned, merged, joined, chart_df>>

\* _preprocess_df, line 80
Align ==
    /\ pc = "topk"
    /\ aligned' = Transform(topdf, start_criterion)
    /\ pc' = "aligned"
    /\ UNCHANGED <<df, quarantine_df, groupcol, ycol, ycol_is_cumulative, top_k_groups,
                   start_criterion, spec, ydf, topdf, merged, joined, chart_df>>

\* _preprocess_df, lines 81-108; without a lockdown table the block is
\* skipped whole
JoinLockdowns ==
    /\ pc = "aligned"
    /\ IF IsNull(quarantine_df)
       THEN /\ merged' = WithoutLockdown(aligned)
            /\ joined' = WithoutLockdown(aligned)
            /\ pc' = "joined"
       ELSE /\ merged' = JoinLockdown(aligned, Val(quarantine_df))
            /\ joined' = joined
            /\ pc' = "merged"
    /\ UNCHANGED <<df, quarantine_df, groupcol, ycol, ycol_is_cumulative, top_k_groups,
                   start_criterion, spec, ydf, topdf, aligned, chart_df>>

\* _preprocess_df, lines 116-118
AppendMarkerRows ==
    /\ pc = "merged"
    /\ joined' = AppendNewRows(merged)
    /\ pc' = "joined"
    /\ UNCHANGED <<df, quarantine_df, groupcol, ycol, ycol_is_cumulative, top_k_groups,
                   start_criterion, spec, ydf, topdf, aligned, merged, chart_df>>

\* _preprocess_df, lines 120-126
Clip ==
    /\ pc = "joined"
    /\ chart_df' = ClipDomains(joined, spec)
    /\ pc' = "done"
    /\ UNCHANGED <<df, quarantine_df, groupcol, ycol, ycol_is_cumulative, top_k_groups,
                   start_criterion, spec, ydf, topdf, aligned, merged, joined>>

Next ==
    \/ Construct
    \/ Cumulate
    \/ SelectTopK
    \/ Align
    \/ JoinLockdowns
    \/ AppendMarkerRows
    \/ Clip

Spec == Init /\ [][Next]_vars

\* the lockdown arguments of InitLockdowns under either start criterion
InitCriteria ==
    /\ pc = "new"
    /\ NoTables
    /\ groupcol = "g" /\ ycol = "raw"
    /\ df \in SeqsUpTo(RawRows, MaxRows)
    /\ quarantine_df \in {Some(q) : q \in SeqsUpTo(LockdownRows, MaxEvents)}
    /\ ycol_is_cumulative = TRUE
    /\ top_k_groups = None
    /\ start_criterion \in {DaysSinceNumReached, FixedStartDate}
    /\ spec = [xdomain |-> None, ydomain |-> None]

SpecCriteria == InitCriteria /\ [][Next]_vars

TypeOK == pc \in {"new", "ready", "error", "y", "topk", "aligned", "merged", "joined", "done"}

(* ============================== claims ================================ *)
Count(t, r) == Cardinality({i \in DOMAIN t : t[i] = r})
Started == pc \notin {"new", "ready", "error"}
AfterTopK == pc \in {"topk", "aligned", "merged", "joined", "done"}
AfterMerge == pc \in {"merged", "joined", "done"} /\ NotNull(quarantine_df)
AfterAppend == pc \in {"joined", "done"} /\ NotNull(quarantine_df)

RECURSIVE SumRaw(_, _)
SumRaw(t, S) ==
    IF S = {} THEN 0
    ELSE LET i == CHOOSE j \in S : TRUE IN t[i].raw + SumRaw(t, S \ {i})

\* the rows of row i's group that come no later than row i by date (rows of
\* one date in row order)
UpToByDate(t, i) ==
    {j \in DOMAIN t : /\ t[j].g = t[i].g
                      /\ \/ t[j].date < t[i].date
                         \/ t[j].date = t[i].date /\ j <= i}

\* h has a larger peak y than g in table t
Outranks(t, h, g) ==
    \E i \in RowsOf(t, h) : \A j \in RowsOf(t, g) : t[i].y > t[j].y

\* C8: when the configured group column or measure column is not a column
\* of the input table, construction fails and no stage of the pipeline
\* computes a table.
C8_MissingColumnAborts ==
    (groupcol \notin Columns \/ ycol \notin Columns) => (pc \in {"new", "error"} /\ NoTables)

C8_Witness == pc = "error" /\ groupcol \in Columns /\ ycol \notin Columns /\ Len(df) = MaxRows

\* C6 (as claimed): y is the raw measure when the measure is cumulative,
\* and otherwise the running sum of the raw measure over the group's rows
\* in ascending date order, whatever the row order of the input.
C6_RunningSumByDate ==
    Started =>
      \A i \in DOMAIN ydf :
        ydf[i].y = IF ycol_is_cumulative THEN ydf[i].raw
                   ELSE SumRaw(ydf, UpToByDate(ydf, i))

\* C1 (as claimed): with top_k_groups = K the returned table holds exactly
\* min(K, distinct groups of the input) groups.
C1_OutputHasMinKGroups ==
    (pc = "done" /\ NotNull(top_k_groups)) =>
      Cardinality(GroupsOf(chart_df)) = Min2(Val(top_k_groups), Cardinality(GroupsOf(df)))

\* C1 (amended): with top_k_groups = K the table leaving the top-k stage
\* holds exactly min(K, distinct groups of the input) groups, each with
\* fewer than K groups of larger peak y; the returned table holds no group
\* outside them.
C1_TopKStage ==
    (AfterTopK /\ NotNull(top_k_groups)) =>
      /\ Cardinality(GroupsOf(topdf)) = Min2(Val(top_k_groups), Cardinality(GroupsOf(df)))
      /\ \A g \in GroupsOf(topdf) :
            Cardinality({h \in GroupsOf(ydf) : Outranks(ydf, h, g)}) < Val(top_k_groups)
      /\ \A i \in DOMAIN ydf : ydf[i].g \in GroupsOf(topdf) => Count(topdf, ydf[i]) = Count(ydf, ydf[i])
      /\ pc = "done" => GroupsOf(chart_df) \subseteq GroupsOf(topdf)

C1_Witness ==
    /\ pc = "done" /\ top_k_groups = Some(1)
    /\ GroupsOf(ydf) = {"A", "B"} /\ Outranks(ydf, "B", "A")
    /\ GroupsOf(topdf) = {"B"} /\ GroupsOf(chart_df) = {"B"}

\* C7 (as claimed): the returned table has at least as many rows as the
\* input table.
C7_NoFewerRows == pc = "done" => Len(chart_df) >= Len(df)

\* C7 (amended): the returned table has at least as many rows as the input
\* table when no top-k and no x/y domain is configured and every group of
\* the input has an anchor date.
C7_NoFewerRowsUnfiltered ==
    (/\ pc = "done" /\ IsNull(top_k_groups)
     /\ IsNull(spec.xdomain) /\ IsNull(spec.ydomain)
     /\ GroupsOf(aligned) = GroupsOf(df)) => Len(chart_df) >= Len(df)

C7_Witness ==
    /\ pc = "done" /\ IsNull(top_k_groups) /\ IsNull(spec.xdomain) /\ IsNull(spec.ydomain)
    /\ GroupsOf(aligned) = GroupsOf(df) /\ Len(df) = 2 /\ Len(chart_df) = 4
    /\ \E i \in DOMAIN merged : IsNull(merged[i].lockdown_x)

\* the row's x (resp. y) lies in the configured closed interval, if one is
\* configured
KeptByDomains(r) ==
    /\ NotNull(spec.xdomain) =>
         (r.x /= <<>> /\ spec.xdomain[1][1] <= r.x[1] /\ r.x[1] <= spec.xdomain[1][2])
    /\ NotNull(spec.ydomain) =>
         (r.y /= <<>> /\ spec.ydomain[1][1] <= r.y[1] /\ r.y[1] <= spec.ydomain[1][2])

\* C5: the returned table is the table after the join and the marker rows,
\* less exactly the rows whose x (resp. y) is outside the configured closed
\* interval: rows on a bound stay, marker rows are filtered like any other
\* row, and an empty table is returned like any other.
C5_ClipKeepsClosedInterval ==
    pc = "done" =>
      \A r \in Range(joined) \cup Range(chart_df) :
        Count(chart_df, r) = IF KeptByDomains(r) THEN Count(joined, r) ELSE 0

C5_Witness ==
    /\ pc = "done" /\ spec.xdomain = Some(<<0, 1>>)
    /\ \E i \in DOMAIN joined :
          IsNull(joined[i].date) /\ joined[i].x = Some(2) /\ Count(chart_df, joined[i]) = 0
    /\ \E i \in DOMAIN chart_df : chart_df[i].x = Some(1)
    /\ \E i \in DOMAIN chart_df : chart_df[i].x = Some(0)

\* the complete lockdown rows given for group g
EventsOf(g) ==
    {k \in DOMAIN Val(quarantine_df) :
        /\ Val(quarantine_df)[k].g = g
        /\ Val(quarantine_df)[k].lockdown_date /= <<>>
        /\ Val(quarantine_df)[k].lockdown_type /= <<>>}
EventDate(k) == Val(quarantine_df)[k].lockdown_date[1]
EventType(k) == Val(quarantine_df)[k].lockdown_type[1]
\* the anchor date of a group of the aligned table
AnchorOf(g) == aligned[CHOOSE i \in DOMAIN aligned : aligned[i].g = g].date_of_N

\* C2: after the lockdown join every non-null lockdown_x is > 0 (and comes
\* with a lockdown_type), and the rows of a group whose lockdown events all
\* fall on or before its anchor date have null lockdown_x and lockdown_type;
\* the marker rows appended later obey the same.
C2_LockdownXPositive ==
    AfterMerge =>
      \A r \in Range(merged) \cup Range(joined) :
        /\ r.lockdown_x /= <<>> => (r.lockdown_x[1] > 0 /\ r.lockdown_type /= <<>>)
        /\ r.lockdown_type /= <<>> => r.lockdown_x /= <<>>
        /\ (\A k \in EventsOf(r.g) : EventDate(k) <= AnchorOf(r.g)) =>
              (r.lockdown_x = <<>> /\ r.lockdown_type = <<>>)

C2_Witness ==
    /\ pc = "joined" /\ NotNull(quarantine_df)
    /\ \E i \in DOMAIN merged :
          /\ EventsOf(merged[i].g) /= {}
          /\ \A k \in EventsOf(merged[i].g) : EventDate(k) = AnchorOf(merged[i].g)
          /\ IsNull(merged[i].lockdown_x)
    /\ \E i \in DOMAIN merged : merged[i].lockdown_x = Some(1)

\* C3: after the lockdown join all rows of a group carry one lockdown_x,
\* lockdown_date and lockdown_type: those of an event of the group whose
\* offset from the anchor is the least positive one among the group's
\* events, however many of them qualify; null when none qualifies.
C3_EarliestLockdownOnly ==
    AfterMerge =>
      \A i \in DOMAIN merged :
        LET r == merged[i]
            pos == {k \in EventsOf(r.g) : EventDate(k) > AnchorOf(r.g)}
        IN /\ \A j \in DOMAIN merged :
                merged[j].g = r.g =>
                  /\ merged[j].lockdown_x = r.lockdown_x
                  /\ merged[j].lockdown_type = r.lockdown_type
                  /\ merged[j].lockdown_date = r.lockdown_date
           /\ IF pos = {} THEN r.lockdown_x = <<>>
              ELSE /\ r.lockdown_x /= <<>>
                   /\ \E k \in pos :
                        /\ r.lockdown_x[1] = EventDate(k) - AnchorOf(r.g)
                        /\ r.lockdown_date = <<EventDate(k)>>
                        /\ r.lockdown_type = <<EventType(k)>>
                   /\ \A k \in pos : r.lockdown_x[1] <= EventDate(k) - AnchorOf(r.g)

C3_Witness ==
    /\ pc = "merged" /\ Len(Val(quarantine_df)) = 2 /\ Len(merged) = 2
    /\ Val(quarantine_df)[1] = [g |-> "A", lockdown_date |-> Some(3), lockdown_type |-> Some("partial")]
    /\ Val(quarantine_df)[2] = [g |-> "A", lockdown_date |-> Some(2), lockdown_type |-> Some("full")]
    /\ \A i \in DOMAIN merged :
          /\ merged[i].g = "A" /\ merged[i].date_of_N = Some(1)
          /\ merged[i].lockdown_x = Some(1) /\ merged[i].lockdown_type = Some("full")

\* the rows appended by the join stage
Appended == SubSeq(joined, Len(merged) + 1, Len(joined))
GroupsWithEvent == {merged[i].g : i \in {j \in DOMAIN merged : merged[j].lockdown_x /= <<>>}}

\* C4 (as claimed): the join stage appends one row for each group with a
\* retained event and none for the other groups; the row is a copy of the
\* group's max-x row with x set to lockdown_x; no row is replaced or removed.
C4_MarkerIsCopyOfMaxXRow ==
    AfterAppend =>
      /\ SubSeq(joined, 1, Len(merged)) = merged
      /\ Len(Appended) = Cardinality(GroupsWithEvent)
      /\ \A k \in DOMAIN Appended :
           \E i \in DOMAIN merged :
             /\ merged[i].g = Appended[k].g /\ merged[i].lockdown_x /= <<>>
             /\ \A j \in DOMAIN merged : merged[j].g = merged[i].g => merged[j].x[1] <= merged[i].x[1]
             /\ Appended[k] = [merged[i] EXCEPT !.x = merged[i].lockdown_x]

\* C4 (amended): the join stage appends one row for each group of the
\* table, with or without a retained event, and replaces or removes no row;
\* the row holds the group, the group's lockdown_x and lockdown_type (null
\* without an event) and x equal to that lockdown_x, and every other cell
\* of it, y included, is null.
C4_MarkerRowPerGroup ==
    AfterAppend =>
      /\ SubSeq(joined, 1, Len(merged)) = merged
      /\ Len(Appended) = Cardinality(GroupsOf(merged))
      /\ \A g \in GroupsOf(merged) : \E k \in DOMAIN Appended : Appended[k].g = g
      /\ \A k \in DOMAIN Appended :
           LET m == Appended[k]
           IN /\ \A i \in DOMAIN merged :
                    merged[i].g = m.g =>
                      /\ m.lockdown_x = merged[i].lockdown_x
                      /\ m.lockdown_type = merged[i].lockdown_type
              /\ m.x = m.lockdown_x
              /\ m.date = <<>> /\ m.raw = <<>> /\ m.y = <<>> /\ m.date_of_N = <<>>
              /\ m.lockdown_date = <<>> /\ m.intercept = <<>>
              /\ m.lockdown_y = <<>> /\ m.lockdown_slope = <<>>

C4_Witness ==
    /\ pc = "joined" /\ NotNull(quarantine_df)
    /\ GroupsOf(merged) = {"A", "B"} /\ GroupsWithEvent = {"B"}
    /\ Len(joined) = 4
    /\ \E k \in DOMAIN Appended : Appended[k].g = "B" /\ Appended[k].x = Some(2)
    /\ \E k \in DOMAIN Appended : Appended[k].g = "A" /\ Appended[k].x = <<>>

C9_NoAnchorRowReached ==
    /\ pc = "merged"
    /\ \E i \in DOMAIN merged :
          /\ merged[i].lockdown_x /= <<>> /\ merged[i].lockdown_y /= <<>>
          /\ merged[i].intercept = <<>>
          /\ \A j \in DOMAIN merged : merged[j].g = merged[i].g => merged[j].x /= Some(0)

\* C10 (as claimed): a row whose intercept <= 0, whose lockdown_y <= 0 or
\* whose lockdown_x == 0 has a missing (NaN) lockdown_slope.
C10_DegenerateSlopeIsNaN ==
    AfterMerge =>
      \A i \in DOMAIN merged :
        LET r == merged[i]
        IN (r.lockdown_x /= <<>> /\ r.intercept /= <<>> /\ r.lockdown_y /= <<>>
            /\ (r.intercept[1] <= 0 \/ r.lockdown_y[1] <= 0 \/ r.lockdown_x[1] = 0))
           => r.lockdown_slope = <<>>

====
